---- MODULE Spec2Model ----
(***************************************************************************)
(* Near-Earth objects and their close approaches: the entity model of      *)
(* models.py (NearEarthObject, CloseApproach) and the loaders of           *)
(* extract.py, as a state machine over a heap of Python objects.           *)
(*                                                                         *)
(* Python values are tagged records; a Python str is a sequence of         *)
(* one-character strings, so that parsing and formatting are computed     *)
(* character by character.  A float is either NaN or a fixed-point number  *)
(* counted in units of 10^-FracDigits.                                     *)
(***************************************************************************)
EXTENDS Integers, Sequences, FiniteSets, TLC

VARIABLES neos, lists, cas, ca_info, result

vars == <<neos, lists, cas, ca_info, result>>

(***************************************************************************)
(* Bounds of the model.                                                    *)
(***************************************************************************)
\* Fractional decimal digits a modelled float keeps.
FracDigits == 4
\* Objects of each class on the heap in SpecNEO and SpecCA.
MaxObjs == 1
\* NearEarthObjects and CloseApproaches on the heap in Spec.
MaxNeos == 2
MaxCAs == 2
\* Rows of one input file handed to a loader.
MaxRows == 1

(***************************************************************************)
(* Python values.                                                          *)
(***************************************************************************)
None == [t |-> "None"]
\* Marks a keyword argument the caller did not pass (not a Python value).
Omitted == [t |-> "omitted"]
PyStr(s) == [t |-> "str", s |-> s]
PyBool(b) == [t |-> "bool", b |-> b]
NaN == [t |-> "float", nan |-> TRUE, v |-> 0]
PyFloat(n) == [t |-> "float", nan |-> FALSE, v |-> n]
PyDatetime(y, mo, d, h, mi) ==
    [t |-> "datetime", year |-> y, month |-> mo, day |-> d, hour |-> h, minute |-> mi]
NeoRef(i) == [t |-> "NearEarthObject", id |-> i]

\* bool(x): Python truth value testing.
truthy(x) ==
    CASE x.t = "None" -> FALSE
      [] x.t = "str" -> x.s # <<>>
      [] x.t = "bool" -> x.b
      [] x.t = "float" -> x.nan \/ x.v # 0
      [] OTHER -> TRUE

\* x or y
py_or(x, y) == IF truthy(x) THEN x ELSE y

\* str(x) as an f-string renders it, for None and str.
py_str(x) == IF x.t = "None" THEN <<"N", "o", "n", "e">> ELSE x.s

\* dict.get(key, default) on a dict modelled as a function on its keys.
dict_get(d, key, default) == IF key \in DOMAIN d THEN d[key] ELSE default

(***************************************************************************)
(* Decimal digits.                                                         *)
(***************************************************************************)
Digits == <<"0", "1", "2", "3", "4", "5", "6", "7", "8", "9">>
IsDigit(c) == \E i \in 1..10 : Digits[i] = c
DigitVal(c) == (CHOOSE i \in 1..10 : Digits[i] = c) - 1

RECURSIVE Pow10(_)
Pow10(n) == IF n = 0 THEN 1 ELSE 10 * Pow10(n - 1)

\* The number a sequence of digits denotes.
RECURSIVE DecVal(_)
DecVal(s) ==
    IF s = <<>> THEN 0
    ELSE 10 * DecVal(SubSeq(s, 1, Len(s) - 1)) + DigitVal(s[Len(s)])

\* n as exactly w digits, zero-padded.
RECURSIVE Pad(_, _)
Pad(n, w) == IF w = 0 THEN <<>> ELSE Append(Pad(n \div 10, w - 1), Digits[(n % 10) + 1])

(***************************************************************************)
(* float(): the decimal literals [sign] digits [. digits] with at most     *)
(* FracDigits fractional digits; every other string is a ValueError, and   *)
(* None is a TypeError.  (Python also accepts exponents, "nan", "inf" and  *)
(* surrounding whitespace; the input sets below hold none of these.)       *)
(***************************************************************************)
float_str(s) ==
    LET signed == Len(s) > 0 /\ s[1] \in {"-", "+"}
        neg == Len(s) > 0 /\ s[1] = "-"
        body == IF signed THEN Tail(s) ELSE s
        dots == {i \in 1..Len(body) : body[i] = "."}
        digs == SelectSeq(body, IsDigit)
        ok == /\ \A i \in 1..Len(body) : IsDigit(body[i]) \/ body[i] = "."
              /\ Cardinality(dots) <= 1
              /\ Len(digs) >= 1
        frac == IF dots = {} THEN 0 ELSE Len(body) - (CHOOSE i \in dots : TRUE)
        mag == DecVal(digs) * Pow10(FracDigits - frac)
    IN  IF ok
        THEN [exc |-> "", val |-> PyFloat(IF neg THEN 0 - mag ELSE mag)]
        ELSE [exc |-> "ValueError", val |-> None]

py_float(x) ==
    CASE x.t = "float" -> [exc |-> "", val |-> x]
      [] x.t = "str" -> float_str(x.s)
      [] OTHER -> [exc |-> "TypeError", val |-> None]

(***************************************************************************)
(* Timestamps.                                                             *)
(***************************************************************************)
MonthAbbr ==
    << <<"J", "a", "n">>, <<"F", "e", "b">>, <<"M", "a", "r">>, <<"A", "p", "r">>,
       <<"M", "a", "y">>, <<"J", "u", "n">>, <<"J", "u", "l">>, <<"A", "u", "g">>,
       <<"S", "e", "p">>, <<"O", "c", "t">>, <<"N", "o", "v">>, <<"D", "e", "c">> >>

\* helpers.cd_to_datetime: "YYYY-Mon-DD HH:MM" to a calendar timestamp.
cd_to_datetime(x) ==
    LET s == x.s
    IN  PyDatetime(DecVal(SubSeq(s, 1, 4)),
                   CHOOSE m \in 1..12 : MonthAbbr[m] = SubSeq(s, 6, 8),
                   DecVal(SubSeq(s, 10, 11)),
                   DecVal(SubSeq(s, 13, 14)),
                   DecVal(SubSeq(s, 16, 17)))

\* Mutant of strftime: the format keeps the seconds, "%Y-%m-%d %H:%M:%S".
strftime_seconds(dt) ==
    Pad(dt.year, 4) \o <<"-">> \o Pad(dt.month, 2) \o <<"-">> \o Pad(dt.day, 2)
        \o <<" ">> \o Pad(dt.hour, 2) \o <<":">> \o Pad(dt.minute, 2) \o <<":", "0", "0">>

\* datetime.strftime("%Y-%m-%d %H:%M"), for years of four digits.
strftime(dt) ==
    Pad(dt.year, 4) \o <<"-">> \o Pad(dt.month, 2) \o <<"-">> \o Pad(dt.day, 2)
        \o <<" ">> \o Pad(dt.hour, 2) \o <<":">> \o Pad(dt.minute, 2)

\* helpers.datetime_to_str
datetime_to_str(dt) == strftime(dt)

(***************************************************************************)
(* The heap.  neos and cas hold the objects in order of construction; a    *)
(* reference is an index.  lists holds the Python list objects: a          *)
(* NearEarthObject's approaches field is the index of its list, so that    *)
(* two objects sharing one list is a state the model can express.          *)
(* ca_info records the keyword arguments each CloseApproach was built      *)
(* from, and result the outcome of the last call.                          *)
(***************************************************************************)
Call(op, self, args, exc, ret) ==
    [op |-> op, self |-> self, args |-> args, exc |-> exc, ret |-> ret]

\* Mutant of fresh_list: one list shared by every object (a class attribute
\* or a mutable default argument).
shared_list(heap) == 1

\* self.approaches = []  allocates a list no other object holds.
fresh_list(heap) == Len(heap) + 1

\* The heap of lists after an object took list id.
alloc(heap, id) == IF id > Len(heap) THEN Append(heap, <<>>) ELSE heap

\* Mutant of empty_to_none: the empty string is kept.
keep_empty(x) == x

\* if self.x == '': self.x = None
empty_to_none(x) == IF x = PyStr(<<>>) THEN None ELSE x

\* A parameter's default value, when the caller did not pass it.
arg(x, default) == IF x = Omitted THEN default ELSE x

\* NearEarthObject.__init__: the outcome and the object, given the heap of lists.
NearEarthObject_init(designation, name, diameter, hazardous, heap) ==
    LET f == py_float(arg(diameter, NaN))
    IN  [exc |-> IF f.exc = "ValueError" THEN "" ELSE f.exc,
         obj |-> [designation |-> empty_to_none(arg(designation, None)),
                  name |-> empty_to_none(arg(name, None)),
                  diameter |-> IF f.exc = "ValueError" THEN NaN ELSE f.val,
                  hazardous |-> arg(hazardous, None),
                  approaches |-> fresh_list(heap)]]

\* NearEarthObject.serialize
NearEarthObject_serialize(self) ==
    [designation |-> py_or(self.designation, PyStr(<<>>)),
     name |-> py_or(self.name, PyStr(<<>>)),
     diameter_km |-> py_or(self.diameter, NaN),
     potentially_hazardous |-> self.hazardous]

\* Mutant of CloseApproach_init: a parse failure is caught and defaulted to
\* NaN, as NearEarthObject.__init__ does for the diameter.
CloseApproach_init_lenient(info) ==
    LET t0 == dict_get(info, "time", None)
        fd == py_float(dict_get(info, "distance", PyFloat(0)))
        fv == py_float(dict_get(info, "velocity", PyFloat(0)))
    IN  [exc |-> "",
         obj |-> [_designation |-> dict_get(info, "designation", PyStr(<<>>)),
                  time |-> IF truthy(t0) THEN cd_to_datetime(t0) ELSE t0,
                  distance |-> IF fd.exc # "" THEN NaN ELSE fd.val,
                  velocity |-> IF fv.exc # "" THEN NaN ELSE fv.val,
                  neo |-> None]]

\* CloseApproach.__init__(**info): the outcome and the object.
CloseApproach_init(info) ==
    LET t0 == dict_get(info, "time", None)
        fd == py_float(dict_get(info, "distance", PyFloat(0)))
        fv == py_float(dict_get(info, "velocity", PyFloat(0)))
    IN  [exc |-> IF fd.exc # "" THEN fd.exc ELSE fv.exc,
         obj |-> [_designation |-> dict_get(info, "designation", PyStr(<<>>)),
                  time |-> IF truthy(t0) THEN cd_to_datetime(t0) ELSE t0,
                  distance |-> fd.val,
                  velocity |-> fv.val,
                  neo |-> None]]

\* Mutant of time_str: the linked NEO is not read.
time_str_without_neo(self, ns) ==
    IF ~truthy(self.time) THEN PyStr(<<>>)
    ELSE PyStr(<<"T", "i", "m", "e", " ">> \o datetime_to_str(self.time))

\* CloseApproach.time_str, reading the linked NEO from the heap ns.
time_str(self, ns) ==
    IF ~truthy(self.time) THEN PyStr(<<>>)
    ELSE LET rv == <<"T", "i", "m", "e", " ">> \o datetime_to_str(self.time)
         IN  IF truthy(self.neo)
             THEN PyStr(rv \o <<"N", "a", "m", "e", " ">> \o py_str(ns[self.neo.id].name)
                        \o <<" ", "D", "e", "s", "i", "g", "n", "a", "t", "i", "o", "n", " ">>
                        \o py_str(ns[self.neo.id].designation))
             ELSE PyStr(rv)

\* CloseApproach.serialize: None and str have no strftime.
CloseApproach_serialize(self) ==
    IF self.time.t # "datetime"
    THEN [exc |-> "AttributeError", ret |-> None]
    ELSE [exc |-> "",
          ret |-> [datetime_utc |-> PyStr(strftime(self.time)),
                   distance_au |-> py_or(self.distance, NaN),
                   velocity_km_s |-> py_or(self.velocity, NaN)]]

(***************************************************************************)
(* Operations.                                                             *)
(***************************************************************************)
\* NearEarthObject(designation, name, diameter, hazardous), Omitted for a default.
NewNEO(designation, name, diameter, hazardous, bound) ==
    /\ Len(neos) < bound
    /\ LET r == NearEarthObject_init(designation, name, diameter, hazardous, lists)
           a == <<designation, name, diameter, hazardous>>
       IN  IF r.exc # ""
           THEN /\ result' = Call("NearEarthObject", 0, a, r.exc, None)
                /\ UNCHANGED <<neos, lists>>
           ELSE /\ neos' = Append(neos, r.obj)
                /\ lists' = alloc(lists, r.obj.approaches)
                /\ result' = Call("NearEarthObject", 0, a, "", NeoRef(Len(neos) + 1))
    /\ UNCHANGED <<cas, ca_info>>

\* neo.serialize()
SerializeNEO(n) ==
    /\ result' = Call("NearEarthObject.serialize", n, <<>>, "",
                      NearEarthObject_serialize(neos[n]))
    /\ UNCHANGED <<neos, lists, cas, ca_info>>

\* CloseApproach(**info)
NewCA(info, bound) ==
    /\ Len(cas) < bound
    /\ LET r == CloseApproach_init(info)
       IN  IF r.exc # ""
           THEN /\ result' = Call("CloseApproach", 0, info, r.exc, None)
                /\ UNCHANGED <<cas, ca_info>>
           ELSE /\ cas' = Append(cas, r.obj)
                /\ ca_info' = Append(ca_info, info)
                /\ result' = Call("CloseApproach", 0, info, "", Len(cas) + 1)
    /\ UNCHANGED <<neos, lists>>

\* approach.time_str
TimeStr(a) ==
    /\ result' = Call("CloseApproach.time_str", a, <<>>, "", time_str(cas[a], neos))
    /\ UNCHANGED <<neos, lists, cas, ca_info>>

\* approach.serialize()
SerializeCA(a) ==
    /\ LET r == CloseApproach_serialize(cas[a])
       IN  result' = Call("CloseApproach.serialize", a, <<>>, r.exc, r.ret)
    /\ UNCHANGED <<neos, lists, cas, ca_info>>

\* The linker: the approach's foreign key resolved to a NEO of that
\* designation; approach.neo = neo and neo.approaches.append(approach).
Link(a, n) ==
    /\ cas[a].neo = None
    /\ neos[n].designation = cas[a]._designation
    /\ cas' = [cas EXCEPT ![a].neo = NeoRef(n)]
    /\ lists' = [lists EXCEPT ![neos[n].approaches] = Append(@, a)]
    /\ result' = Call("link", a, <<n>>, "", None)
    /\ UNCHANGED <<neos, ca_info>>

(***************************************************************************)
(* extract.py: the loaders.  A csv row and a JSON item are lists of        *)
(* strings, modelled as functions on the (0-based) columns the loader      *)
(* reads.  An exception of a constructor ends the load; the objects built  *)
(* so far are then unreachable.                                            *)
(***************************************************************************)
NeoRow(pdes, name, pha, diameter) ==
    (3 :> PyStr(pdes)) @@ (4 :> PyStr(name)) @@ (7 :> PyStr(pha)) @@ (15 :> PyStr(diameter))

ApproachItem(des, cd, dist, v_rel) ==
    (0 :> PyStr(des)) @@ (3 :> PyStr(cd)) @@ (4 :> PyStr(dist)) @@ (7 :> PyStr(v_rel))

\* The keyword arguments of a call, without the ones not passed.
Kwargs(designation, time, distance, velocity) ==
    LET full == [k \in {"designation", "time", "distance", "velocity"} |->
                    CASE k = "designation" -> designation
                      [] k = "time" -> time
                      [] k = "distance" -> distance
                      [] OTHER -> velocity]
    IN  [k \in {k \in DOMAIN full : full[k] # Omitted} |-> full[k]]

\* load_neos: the loop over the rows, from the heap (ns, heap).
RECURSIVE load_neos(_, _, _)
load_neos(rows, ns, heap) ==
    IF rows = <<>> THEN [exc |-> "", neos |-> ns, lists |-> heap]
    ELSE LET row == Head(rows)
             r == NearEarthObject_init(row[3], row[4], row[15],
                                       PyBool(row[7] = PyStr(<<"Y">>)), heap)
         IN  IF r.exc # "" THEN [exc |-> r.exc, neos |-> ns, lists |-> heap]
             ELSE load_neos(Tail(rows), Append(ns, r.obj), alloc(heap, r.obj.approaches))

\* The keyword arguments load_approaches builds from one item.
item_info(item) == Kwargs(item[0], item[3], item[4], item[7])

\* load_approaches: the loop over data['data'], from the heap cs.
RECURSIVE load_approaches(_, _)
load_approaches(data, cs) ==
    IF data = <<>> THEN [exc |-> "", cas |-> cs]
    ELSE LET r == CloseApproach_init(item_info(Head(data)))
         IN  IF r.exc # "" THEN [exc |-> r.exc, cas |-> cs]
             ELSE load_approaches(Tail(data), Append(cs, r.obj))

\* The references a loader returns: the objects it appended to a heap of n.
Refs(n, k) == [i \in 1..k |-> n + i]

LoadNeos(rows, bound) ==
    /\ Len(neos) + Len(rows) <= bound
    /\ LET r == load_neos(rows, neos, lists)
       IN  IF r.exc # ""
           THEN /\ result' = Call("load_neos", 0, rows, r.exc, None)
                /\ UNCHANGED <<neos, lists>>
           ELSE /\ neos' = r.neos
                /\ lists' = r.lists
                /\ result' = Call("load_neos", 0, rows, "", Refs(Len(neos), Len(rows)))
    /\ UNCHANGED <<cas, ca_info>>

LoadApproaches(data, bound) ==
    /\ Len(cas) + Len(data) <= bound
    /\ LET r == load_approaches(data, cas)
       IN  IF r.exc # ""
           THEN /\ result' = Call("load_approaches", 0, data, r.exc, None)
                /\ UNCHANGED <<cas, ca_info>>
           ELSE /\ cas' = r.cas
                /\ ca_info' = ca_info \o [i \in 1..Len(data) |-> item_info(data[i])]
                /\ result' = Call("load_approaches", 0, data, "", Refs(Len(cas), Len(data)))
    /\ UNCHANGED <<neos, lists>>

(***************************************************************************)
(* Inputs.                                                                 *)
(***************************************************************************)
\* String literals.
s_433 == <<"4", "3", "3">>
s_1036 == <<"1", "0", "3", "6">>
s_Eros == <<"E", "r", "o", "s">>
s_0 == <<"0">>
s_0_0 == <<"0", ".", "0">>
s_0_0921 == <<"0", ".", "0", "9", "2", "1">>
s_16_84 == <<"1", "6", ".", "8", "4">>
s_16_75 == <<"1", "6", ".", "7", "5">>
s_neg_1_5 == <<"-", "1", ".", "5">>
s_abc == <<"a", "b", "c">>
s_1_2_3 == <<"1", ".", "2", ".", "3">>
s_pdes == <<"p", "d", "e", "s">>
s_name == <<"n", "a", "m", "e">>
s_pha == <<"p", "h", "a">>
s_diameter == <<"d", "i", "a", "m", "e", "t", "e", "r">>
cd_1900 == <<"1", "9", "0", "0", "-", "J", "a", "n", "-", "0", "1", " ", "0", "0", ":", "1", "1">>
cd_2020 == <<"2", "0", "2", "0", "-", "D", "e", "c", "-", "3", "1", " ", "2", "3", ":", "5", "9">>
cd_1999 == <<"1", "9", "9", "9", "-", "S", "e", "p", "-", "0", "9", " ", "0", "9", ":", "0", "5">>
cd_2000 == <<"2", "0", "0", "0", "-", "F", "e", "b", "-", "2", "9", " ", "1", "2", ":", "0", "0">>

\* Decimal literals with the number each denotes, digits / 10^frac, negated if neg.
NumberLiterals ==
    { [s |-> s_0, digits |-> 0, frac |-> 0, neg |-> FALSE],
      [s |-> s_0_0, digits |-> 0, frac |-> 1, neg |-> FALSE],
      [s |-> s_0_0921, digits |-> 921, frac |-> 4, neg |-> FALSE],
      [s |-> s_16_84, digits |-> 1684, frac |-> 2, neg |-> FALSE],
      [s |-> s_16_75, digits |-> 1675, frac |-> 2, neg |-> FALSE],
      [s |-> s_neg_1_5, digits |-> 15, frac |-> 1, neg |-> TRUE] }

\* Strings that are no number.
MalformedNumbers == {<<>>, s_abc, s_1_2_3, s_diameter}

\* Compact timestamps of the input data, each with the same instant written
\* as "YYYY-MM-DD HH:MM".
TimeCases ==
    { [cd |-> cd_1900, out |-> <<"1", "9", "0", "0", "-", "0", "1", "-", "0", "1", " ", "0", "0", ":", "1", "1">>],
      [cd |-> cd_2020, out |-> <<"2", "0", "2", "0", "-", "1", "2", "-", "3", "1", " ", "2", "3", ":", "5", "9">>],
      [cd |-> cd_1999, out |-> <<"1", "9", "9", "9", "-", "0", "9", "-", "0", "9", " ", "0", "9", ":", "0", "5">>],
      [cd |-> cd_2000, out |-> <<"2", "0", "0", "0", "-", "0", "2", "-", "2", "9", " ", "1", "2", ":", "0", "0">>] }

\* SpecNEO: the arguments of NearEarthObject and the rows of the csv file,
\* whose first row is its header.
Designations == {Omitted, PyStr(<<>>), PyStr(s_433)}
Names == {Omitted, PyStr(<<>>), PyStr(s_Eros)}
DiameterArgs == {Omitted, None, PyStr(<<>>), PyStr(s_0), PyStr(s_16_84), PyStr(s_abc)}
HazardousArgs == {Omitted, PyBool(TRUE), PyBool(FALSE)}
NeoRows ==
    { NeoRow(s_pdes, s_name, s_pha, s_diameter),
      NeoRow(s_433, s_Eros, <<"N">>, s_16_84),
      NeoRow(s_1036, <<>>, <<"Y">>, <<>>) }

\* SpecCA: the keyword arguments of CloseApproach (the designation comes with
\* the items of the JSON file, and in Spec).
TimeArgs == {Omitted, PyStr(<<>>)} \cup {PyStr(c.cd) : c \in TimeCases}
DistanceArgs == {Omitted, PyStr(s_0), PyStr(s_0_0921), PyStr(s_neg_1_5), PyStr(s_abc)}
VelocityArgs == {Omitted, PyStr(s_0_0), PyStr(s_16_75), PyStr(s_1_2_3)}
Infos ==
    { Kwargs(Omitted, t, dist, v) :
        t \in TimeArgs, dist \in DistanceArgs, v \in VelocityArgs }
ApproachItems ==
    { ApproachItem(s_433, cd_1900, s_0_0921, s_16_75),
      ApproachItem(s_1036, cd_2020, s_neg_1_5, s_0_0),
      ApproachItem(s_433, cd_1999, s_abc, s_16_75) }

\* Spec: the objects that get linked.
LinkNeoArgs ==
    { <<PyStr(s_433), PyStr(s_Eros)>>, <<PyStr(s_433), Omitted>>,
      <<PyStr(s_1036), PyStr(s_Eros)>> }
LinkInfos ==
    { Kwargs(PyStr(s_433), t, PyStr(s_0_0921), PyStr(s_16_75)) :
        t \in {Omitted, PyStr(<<>>), PyStr(cd_1900)} }

\* The sequences over S of 1 to n elements.
SeqUpTo(S, n) == UNION { [1..k -> S] : k \in 1..n }

(***************************************************************************)
(* Specifications.                                                         *)
(***************************************************************************)
Init ==
    /\ neos = <<>>
    /\ lists = <<>>
    /\ cas = <<>>
    /\ ca_info = <<>>
    /\ result = Call("init", 0, <<>>, "", None)

\* Construction, linking and reading of linked objects.
Next ==
    \/ \E a \in LinkNeoArgs :
          NewNEO(a[1], a[2], PyStr(s_16_84), PyBool(FALSE), MaxNeos)
    \/ \E info \in LinkInfos : NewCA(info, MaxCAs)
    \/ \E a \in DOMAIN cas, n \in DOMAIN neos : Link(a, n)
    \/ \E a \in DOMAIN cas : TimeStr(a)
    \/ \E a \in DOMAIN cas : SerializeCA(a)

Spec == Init /\ [][Next]_vars

\* NearEarthObject alone, over all its inputs.
NextNEO ==
    \/ \E d \in Designations, n \in Names, dia \in DiameterArgs, h \in HazardousArgs :
          NewNEO(d, n, dia, h, MaxObjs)
    \/ \E rows \in SeqUpTo(NeoRows, MaxRows) : LoadNeos(rows, MaxObjs)
    \/ \E n \in DOMAIN neos : SerializeNEO(n)

SpecNEO == Init /\ [][NextNEO]_vars

\* CloseApproach alone, over all its inputs.
NextCA ==
    \/ \E info \in Infos : NewCA(info, MaxObjs)
    \/ \E data \in SeqUpTo(ApproachItems, MaxRows) : LoadApproaches(data, MaxObjs)
    \/ \E a \in DOMAIN cas : TimeStr(a)
    \/ \E a \in DOMAIN cas : SerializeCA(a)

SpecCA == Init /\ [][NextCA]_vars

(***************************************************************************)
(* Properties.                                                             *)
(***************************************************************************)
\* The float a decimal literal denotes.
LitValue(l) == PyFloat((IF l.neg THEN 0 - 1 ELSE 1) * l.digits * Pow10(FracDigits - l.frac))
IsNumber(x) == \E l \in NumberLiterals : x = PyStr(l.s)
NumberOf(x) == LitValue(CHOOSE l \in NumberLiterals : x = PyStr(l.s))
IsMalformed(x) == x.t = "str" /\ x.s \in MalformedNumbers

\* The float a CloseApproach was given for key k: the literal's, or the default 0.0.
Given(info, k) == IF k \in DOMAIN info THEN NumberOf(info[k]) ELSE PyFloat(0)

\* Equality of floats: NaN equals nothing.
FloatEq(a, b) == a.t = "float" /\ b.t = "float" /\ ~a.nan /\ ~b.nan /\ a.v = b.v

\* sub occurs in s.
Contains(s, sub) ==
    \E i \in 0..(Len(s) - Len(sub)) : SubSeq(s, i + 1, i + Len(sub)) = sub

\* The compact timestamp a CloseApproach was built from, if any.
HasTime(info) == "time" \in DOMAIN info /\ \E c \in TimeCases : info["time"] = PyStr(c.cd)
TimeCase(info) == CHOOSE c \in TimeCases : info["time"] = PyStr(c.cd)

\* The list object of NearEarthObject n.
Approaches(n) == lists[neos[n].approaches]

Returned(op) == result.op = op /\ result.exc = ""

\* C1: serialize() of a CloseApproach linked to a NEO returns a record that
\* holds the timestamp, distance and velocity and the serialized fields
\* (designation, name, diameter, hazardous flag) of the NEO it is linked to.
C1_SerializeJoinsNeo ==
    (Returned("CloseApproach.serialize") /\ cas[result.self].neo # None) =>
        LET n == NearEarthObject_serialize(neos[cas[result.self].neo.id])
        IN  /\ {"datetime_utc", "distance_au", "velocity_km_s"} \subseteq DOMAIN result.ret
            /\ \A k \in DOMAIN n : k \in DOMAIN result.ret /\ result.ret[k] = n[k]

\* C2: the distance_au and velocity_km_s of serialize() equal the distance and
\* velocity the CloseApproach was constructed with, the default 0.0 included.
C2_RoundTrip ==
    Returned("CloseApproach.serialize") =>
        /\ FloatEq(result.ret.distance_au, Given(ca_info[result.self], "distance"))
        /\ FloatEq(result.ret.velocity_km_s, Given(ca_info[result.self], "velocity"))

\* C3: NearEarthObject() never fails because of its diameter: an absent (None
\* or omitted), empty or unparsable diameter is stored as NaN, a parsable one
\* as the number parsed.
C3_DiameterNeverFatal ==
    result.op = "NearEarthObject" =>
        /\ result.exc = ""
        /\ LET dia == result.args[3]
               stored == neos[result.ret.id].diameter
           IN  /\ (dia \in {Omitted, None} \/ IsMalformed(dia)) => stored = NaN
               /\ IsNumber(dia) => stored = NumberOf(dia)

\* C4: CloseApproach() stores 0.0 for an omitted distance or velocity; a
\* distance or velocity string that is no number raises ValueError to the
\* caller (of the constructor, and of load_approaches), and no CloseApproach
\* is ever built from one.
C4_DefaultOrValueError ==
    LET bad(info) == \E k \in {"distance", "velocity"} \cap DOMAIN info : IsMalformed(info[k])
    IN  /\ result.op = "CloseApproach" =>
            /\ bad(result.args) => (result.exc = "ValueError" /\ result.ret = None)
            /\ result.exc = "" =>
                  /\ "distance" \notin DOMAIN result.args =>
                        cas[result.ret].distance = PyFloat(0)
                  /\ "velocity" \notin DOMAIN result.args =>
                        cas[result.ret].velocity = PyFloat(0)
        /\ result.op = "load_approaches" =>
              ((\E i \in DOMAIN result.args : bad(item_info(result.args[i])))
                  => (result.exc = "ValueError" /\ result.ret = None))
        /\ \A a \in DOMAIN ca_info : ~bad(ca_info[a])

C4_Witness ==
    /\ result.op = "CloseApproach"
    /\ result.exc = "ValueError"
    /\ "velocity" \notin DOMAIN result.args
    /\ result.args["distance"] = PyStr(s_abc)

\* C5: NearEarthObject() stores an empty-string designation or name as absent
\* and a non-empty one unchanged, and the hazardous value as given: true,
\* false and absent stay distinct.
C5_Normalized ==
    Returned("NearEarthObject") =>
        LET o == neos[result.ret.id]
            same(given, stored) ==
                /\ given \in {Omitted, None, PyStr(<<>>)} => stored = None
                /\ (given.t = "str" /\ given.s # <<>>) => stored = given
        IN  /\ same(result.args[1], o.designation)
            /\ same(result.args[2], o.name)
            /\ o.hazardous = (IF result.args[4] = Omitted THEN None ELSE result.args[4])
            /\ o.hazardous \in {None, PyBool(TRUE), PyBool(FALSE)}

C5_Witness ==
    /\ Returned("NearEarthObject")
    /\ result.args[1] = PyStr(s_433)
    /\ result.args[2] = PyStr(<<>>)
    /\ result.args[4] = PyBool(FALSE)

\* C6: NearEarthObject.serialize() emits the designation and the name, each
\* as the empty string when absent, the hazardous flag as stored, and the
\* diameter as stored: NaN exactly when it is unknown, zero when it is zero.
C6_SerializeNeo ==
    result.op = "NearEarthObject.serialize" =>
        LET o == neos[result.self]
            shown(x) == IF x = None THEN PyStr(<<>>) ELSE x
        IN  /\ result.ret.designation = shown(o.designation)
            /\ result.ret.name = shown(o.name)
            /\ result.ret.potentially_hazardous = o.hazardous
            /\ result.ret.diameter_km = o.diameter

\* C7: for a CloseApproach built from a compact "YYYY-Mon-DD HH:MM" time,
\* serialize() returns, as datetime_utc, exactly the same instant written as
\* "YYYY-MM-DD HH:MM".
C7_DatetimeUtc ==
    (result.op = "CloseApproach.serialize" /\ HasTime(ca_info[result.self])) =>
        /\ result.exc = ""
        /\ result.ret.datetime_utc = PyStr(TimeCase(ca_info[result.self]).out)

C7_Witness ==
    /\ Returned("CloseApproach.serialize")
    /\ ca_info[result.self]["time"] = PyStr(cd_1999)

\* C8: every CloseApproach on the heap has distance >= 0 and velocity >= 0.
C8_NonNegative ==
    \A a \in DOMAIN cas :
        /\ ~cas[a].distance.nan /\ cas[a].distance.v >= 0
        /\ ~cas[a].velocity.nan /\ cas[a].velocity.v >= 0

C10_Fresh ==
    /\ Returned("CloseApproach") =>
          /\ cas[result.ret].neo = None
          /\ "designation" \in DOMAIN result.args =>
                cas[result.ret]._designation = result.args["designation"]
    /\ Returned("NearEarthObject") =>
          /\ Approaches(result.ret.id) = <<>>
          /\ \A m \in DOMAIN neos \ {result.ret.id} :
                neos[m].approaches # neos[result.ret.id].approaches

\* A step changes the approaches of a NearEarthObject only by appending to
\* the one NEO an approach is linked to.
C10_Frame ==
    \A n \in DOMAIN neos :
        \/ lists'[neos'[n].approaches] = Approaches(n)
        \/ /\ result'.op = "link"
           /\ result'.args[1] = n
           /\ lists'[neos'[n].approaches] = Append(Approaches(n), result'.self)

\* C10: after construction a CloseApproach has an absent neo and keeps its
\* foreign key, and a NearEarthObject has an empty approaches sequence of its
\* own: constructions, and appends to one NEO's approaches, leave the
\* approaches of every other NEO unchanged.
C10_OwnApproaches == [](C10_Fresh) /\ [][C10_Frame]_vars

C10_Witness ==
    \E n \in DOMAIN neos, m \in DOMAIN neos :
        /\ n # m
        /\ Approaches(n) # <<>>
        /\ Approaches(m) = <<>>

====
